---------------------------- MODULE Spec2Model ----------------------------
(***************************************************************************)
(* A state-machine model of VERACODE_REPORT_FETCH.py: the 180-day window   *)
(* segmenter, the HTTPie retry engine, report submission and polling, the  *)
(* pagination traversal, the per-window verification, the writers, the     *)
(* row flattening and the order of the steps of main.                      *)
(* Every component has its own specification over the shared variables;    *)
(* the variables of the components a specification does not run stay at    *)
(* their idle values.                                                      *)
(***************************************************************************)
EXTENDS Integers, Sequences, FiniteSets, TLC

VARIABLES
    \* windows_180
    from_d, to_d, cur, out, wpc,
    \* call_httpie
    attempt, made, proc, hpc, hres, hexit, nTransient, lastsleep,
    \* poll_ready, and the first page request main makes after it
    max_wait_s, interval_s, deadline, now, last, meta, ppc, polls, paging,
    \* post_report
    report_type, start_d, end_d, extra, body, resp, rid, spc,
    \* stream_report_items and the loop of main that consumes it and verifies
    size, verify, strict, profile, total, page_no, next_url, page,
    pages_seen_meta, requested, window_total, audit, exit_status, tpc,
    \* write_all_outputs and the writers it calls
    all_items, no_csv, no_xlsx, chunk_size, max_rows_per_sheet, jsonl, json_arr,
    csv_rows, sheets, sheet_idx, rows_buffer, sheet_rows_written, lineno, xpc,
    \* build_headers_from_jsonl and flatten_for_row
    rec, file, headers, flat_row, fpc,
    \* main
    env_ok, filters_doc, date_from, date_to, args_verify, windows, widx, events, mexit, mpc,
    outstanding

wvars == <<from_d, to_d, cur, out, wpc>>
hvars == <<attempt, made, proc, hpc, hres, hexit, nTransient, lastsleep>>
pvars == <<max_wait_s, interval_s, deadline, now, last, meta, ppc, polls, paging>>
svars == <<report_type, start_d, end_d, extra, body, resp, rid, spc>>
tvars == <<size, verify, strict, profile, total, page_no, next_url, page,
           pages_seen_meta, requested, window_total, audit, exit_status, tpc>>
xvars == <<all_items, no_csv, no_xlsx, chunk_size, max_rows_per_sheet, jsonl,
           json_arr, csv_rows, sheets, sheet_idx, rows_buffer, sheet_rows_written,
           lineno, xpc>>
fvars == <<rec, file, headers, flat_row, fpc>>
mvars == <<env_ok, filters_doc, date_from, date_to, args_verify, windows, widx, events,
           mexit, mpc, outstanding>>

Null == "None"

(***************************************************************************)
(* Calendar dates.  A "YYYY-MM-DD" string is the record [y, m, d] of its   *)
(* three zero-padded fields; datetime.date arithmetic goes through the     *)
(* day ordinal, as date.__add__ does (fromordinal(toordinal() + days)).    *)
(* Ordinals count from 2023-01-01, the first day the model draws dates     *)
(* from.                                                                   *)
(***************************************************************************)
IsLeap(y) == (y % 4 = 0) /\ ((y % 100 # 0) \/ (y % 400 = 0))

DaysInMonth(y, m) ==
    IF m = 2 THEN (IF IsLeap(y) THEN 29 ELSE 28)
    ELSE IF m \in {4, 6, 9, 11} THEN 30 ELSE 31

DaysInYear(y) == IF IsLeap(y) THEN 366 ELSE 365

RECURSIVE DaysBeforeYear(_)
DaysBeforeYear(y) ==
    IF y <= 2023 THEN 0 ELSE DaysBeforeYear(y - 1) + DaysInYear(y - 1)

RECURSIVE DaysBeforeMonth(_, _)
DaysBeforeMonth(y, m) ==
    IF m <= 1 THEN 0 ELSE DaysBeforeMonth(y, m - 1) + DaysInMonth(y, m - 1)

\* date.toordinal(), counted from the first day of the modelled years
toordinal(dt) == DaysBeforeYear(dt.y) + DaysBeforeMonth(dt.y, dt.m) + (dt.d - 1)

RECURSIVE OrdYear(_, _)
OrdYear(n, y) == IF n < DaysInYear(y) THEN <<y, n>> ELSE OrdYear(n - DaysInYear(y), y + 1)

RECURSIVE OrdMonth(_, _, _)
OrdMonth(n, y, m) ==
    IF n < DaysInMonth(y, m) THEN <<m, n>> ELSE OrdMonth(n - DaysInMonth(y, m), y, m + 1)

\* date.fromordinal()
fromordinal(n) ==
    LET yn == OrdYear(n, 2023)
        mn == OrdMonth(yn[2], yn[1], 1)
    IN  [y |-> yn[1], m |-> mn[1], d |-> mn[2] + 1]

\* date + timedelta(days = n)
DateAdd(dt, n) == fromordinal(toordinal(dt) + n)

\* date comparison: lexicographic on (year, month, day)
DateLT(a, b) ==
    \/ a.y < b.y
    \/ a.y = b.y /\ a.m < b.m
    \/ a.y = b.y /\ a.m = b.m /\ a.d < b.d

DateLE(a, b) == a = b \/ DateLT(a, b)

(***************************************************************************)
(* windows_180                                                             *)
(***************************************************************************)
\* step = timedelta(days=180)
step == 180

\* the largest ordinals the --from and --to dates are drawn from
MaxFromOrd == 2
MaxToOrd == 430

\* a windows_180 whose windows end step days, not step - 1 days, after cur
WindowEnd_NoMinusOne(c, e) ==
    LET nxt == DateAdd(c, step)
    IN  IF DateLT(e, nxt) THEN e ELSE nxt

\* lines 134-136: nxt = cur + step - 1 day, clipped to end
WindowEnd(c, e) ==
    LET nxt == DateAdd(DateAdd(c, step), -1)
    IN  IF DateLT(e, nxt) THEN e ELSE nxt

\* a windows_180 whose next window starts two days after nxt
WindowNext_SkipDay(nxt) == DateAdd(nxt, 2)

\* cur = nxt + 1 day
WindowNext(nxt) == DateAdd(nxt, 1)

WStart ==
    /\ from_d \in {fromordinal(n) : n \in 0 .. MaxFromOrd}
    /\ to_d \in {fromordinal(n) : n \in 0 .. MaxToOrd}
    /\ cur = Null
    /\ out = <<>>
    /\ wpc = "start"

WIdle ==
    /\ from_d = Null /\ to_d = Null /\ cur = Null /\ out = <<>> /\ wpc = "idle"

\* lines 126-132: parse both dates, die when end < start, else cur = start
WindowsEnter ==
    /\ wpc = "start"
    /\ IF DateLT(to_d, from_d)
       THEN wpc' = "died" /\ cur' = cur
       ELSE wpc' = "loop" /\ cur' = from_d
    /\ UNCHANGED <<from_d, to_d, out>>
    /\ UNCHANGED <<hvars, pvars, svars, tvars, xvars, fvars, mvars>>

\* one iteration of the while loop, lines 133-138
WindowsStep ==
    /\ wpc = "loop"
    /\ DateLE(cur, to_d)
    /\ LET nxt == WindowEnd(cur, to_d)
       IN  /\ out' = Append(out, <<cur, nxt>>)
           /\ cur' = WindowNext(nxt)
    /\ UNCHANGED <<from_d, to_d, wpc>>
    /\ UNCHANGED <<hvars, pvars, svars, tvars, xvars, fvars, mvars>>

\* the loop condition fails: return out, line 139
WindowsReturn ==
    /\ wpc = "loop"
    /\ ~DateLE(cur, to_d)
    /\ wpc' = "done"
    /\ UNCHANGED <<from_d, to_d, cur, out>>
    /\ UNCHANGED <<hvars, pvars, svars, tvars, xvars, fvars, mvars>>

(***************************************************************************)
(* call_httpie                                                             *)
(*                                                                         *)
(* One transport attempt is subprocess.run of the http executable.  Its    *)
(* outcome is the record proc: rc is the return code (0, or 1 for any      *)
(* non-zero code), body says whether stdout is parseable JSON, empty or    *)
(* malformed, and stderr is the set of markers the error output carries:   *)
(*   "5xx"        one of " 500 ", " 502 ", " 503 ", " 504 "                *)
(*   "conn"       "Read timed out", "Connection reset" or "EOF occurred"   *)
(*   "429"        " 429 "                                                  *)
(*   "401"        "Unauthorized" or " 401 "                                *)
(*   "RetryAfter" a "Retry-After: <digits>" header                         *)
(* An error output with none of them is any other failure.                 *)
(***************************************************************************)
max_attempts == 7

Markers == {"5xx", "conn", "429", "401", "RetryAfter"}

Bodies == {"json", "empty", "bad"}

Procs ==
    {[rc |-> 0, body |-> b, stderr |-> {}] : b \in Bodies}
        \cup {[rc |-> 1, body |-> "empty", stderr |-> m] : m \in SUBSET Markers}

NoProc == [rc |-> 0, body |-> "none", stderr |-> {}]

\* lines 99-100
transient(stderr) == stderr \cap {"5xx", "conn"} # {}

\* line 103
rate_limited(stderr) == "429" \in stderr

\* line 118
unauthorized(stderr) == "401" \in stderr

\* a retry test that lets the last attempt be retried too
may_retry_inclusive(a) == a <= max_attempts

\* lines 90 and 111: attempt < max_attempts
may_retry(a) == a < max_attempts

\* lines 104-106: the Retry-After value when given, else the capped backoff
wait_429(stderr) == IF "RetryAfter" \in stderr THEN "retry_after" ELSE "backoff_cap60"

\* a decision that takes a body that cannot be parsed as fatal at once
Decide_bad_body_dies(p, a) ==
    IF p.rc = 0
    THEN IF p.body = "empty" THEN <<"return", "{}">>
         ELSE IF p.body = "json" THEN <<"return", "payload">>
         ELSE <<"die", 2>>
    ELSE IF rate_limited(p.stderr) THEN <<"continue", wait_429(p.stderr)>>
         ELSE IF transient(p.stderr) /\ may_retry(a) THEN <<"continue", "backoff_cap60">>
         ELSE IF unauthorized(p.stderr) THEN <<"die", 2>>
         ELSE <<"die", p.rc>>

\* a decision that retries any failure while attempts are left
Decide_retry_other(p, a) ==
    IF p.rc = 0
    THEN IF p.body = "empty" THEN <<"return", "{}">>
         ELSE IF p.body = "json" THEN <<"return", "payload">>
         ELSE IF may_retry(a) THEN <<"continue", "backoff_cap30">>
         ELSE <<"die", 2>>
    ELSE IF rate_limited(p.stderr) THEN <<"continue", wait_429(p.stderr)>>
         ELSE IF transient(p.stderr) /\ may_retry(a) THEN <<"continue", "backoff_cap60">>
         ELSE IF unauthorized(p.stderr) THEN <<"die", 2>>
         ELSE IF may_retry(a) THEN <<"continue", "backoff_cap60">>
         ELSE <<"die", p.rc>>

(***************************************************************************)
(* What one iteration of the for loop does with the outcome p of attempt   *)
(* a, lines 83-122: <<"return", value>>, <<"continue", sleep>> or          *)
(* <<"die", exit code>>.  hexit is -1 while the process has not exited.     *)
(***************************************************************************)
Decide(p, a) ==
    IF p.rc = 0
    THEN IF p.body = "empty" THEN <<"return", "{}">>
         ELSE IF p.body = "json" THEN <<"return", "payload">>
         ELSE IF may_retry(a) THEN <<"continue", "backoff_cap30">>
         ELSE <<"die", 2>>
    ELSE IF rate_limited(p.stderr) THEN <<"continue", wait_429(p.stderr)>>
         ELSE IF transient(p.stderr) /\ may_retry(a) THEN <<"continue", "backoff_cap60">>
         ELSE IF unauthorized(p.stderr) THEN <<"die", 2>>
         ELSE <<"die", p.rc>>

HStart ==
    /\ attempt = 1
    /\ made = 0
    /\ proc = NoProc
    /\ hpc = "run"
    /\ hres = Null
    /\ hexit = -1
    /\ nTransient = 0
    /\ lastsleep = "none"

HIdle ==
    /\ attempt = 0
    /\ made = 0
    /\ proc = NoProc
    /\ hpc = "idle"
    /\ hres = Null
    /\ hexit = -1
    /\ nTransient = 0
    /\ lastsleep = "none"

\* lines 70-78: the transport attempt itself
HttpRun ==
    /\ hpc = "run"
    /\ \E p \in Procs : proc' = p
    /\ made' = made + 1
    /\ hpc' = "decide"
    /\ UNCHANGED <<attempt, hres, hexit, nTransient, lastsleep>>
    /\ UNCHANGED <<wvars, pvars, svars, tvars, xvars, fvars, mvars>>

\* lines 79-80: the http executable is missing, so no attempt has an outcome
HttpNotInstalled ==
    /\ hpc = "run"
    /\ hpc' = "died"
    /\ hexit' = 2
    /\ proc' = NoProc
    /\ UNCHANGED <<attempt, made, hres, nTransient, lastsleep>>
    /\ UNCHANGED <<wvars, pvars, svars, tvars, xvars, fvars, mvars>>

\* lines 83-122, and the for statement of line 69 on continue
HttpDecide ==
    /\ hpc = "decide"
    /\ LET dec == Decide(proc, attempt)
       IN  /\ nTransient' =
                 IF proc.rc # 0 /\ transient(proc.stderr)
                      /\ ~rate_limited(proc.stderr) /\ ~unauthorized(proc.stderr)
                 THEN nTransient + 1 ELSE nTransient
           /\ CASE dec[1] = "return" ->
                     /\ hpc' = "returned"
                     /\ hres' = dec[2]
                     /\ UNCHANGED <<attempt, hexit, lastsleep>>
                [] dec[1] = "die" ->
                     /\ hpc' = "died"
                     /\ hexit' = dec[2]
                     /\ UNCHANGED <<attempt, hres, lastsleep>>
                [] dec[1] = "continue" ->
                     /\ lastsleep' = dec[2]
                     /\ IF attempt < max_attempts
                        THEN hpc' = "run" /\ attempt' = attempt + 1
                        ELSE hpc' = "fell" /\ attempt' = attempt
                     /\ UNCHANGED <<hres, hexit>>
    /\ UNCHANGED <<made, proc>>
    /\ UNCHANGED <<wvars, pvars, svars, tvars, xvars, fvars, mvars>>

(***************************************************************************)
(* Payload helpers of the report metadata: current_status, is_completed.   *)
(*                                                                         *)
(* A metadata response is the record [status, drc, emb]: the top-level     *)
(* "status" and "date_report_completed" values (Null when the key is       *)
(* absent or null) and emb, the "_embedded" mapping: <<[status, drc]>>, or *)
(* <<>> when "_embedded" is absent or no mapping.                          *)
(***************************************************************************)
Statuses == {Null, "", "SUBMITTED", "PROCESSING", "COMPLETED", "completed"}

Stamps == {Null, "2024-01-01T00:00:00Z"}

Embeddeds == [status : Statuses, drc : Stamps]

Metas == [status : Statuses, drc : Stamps, emb : {<<>>} \cup {<<e>> : e \in Embeddeds}]

\* Python truthiness of an optional string
Truthy(v) == v # Null /\ v # ""

\* str.upper() on the status strings of the model
upper(v) == IF v = "completed" THEN "COMPLETED" ELSE v

\* lines 154-158
current_status(m) ==
    LET status == IF ~Truthy(m.status) /\ m.emb # <<>> THEN m.emb[1].status ELSE m.status
    IN  IF Truthy(status) THEN status ELSE ""

\* an is_completed that looks at the status only
is_completed_status_only(m) == upper(current_status(m)) = "COMPLETED"

\* lines 161-167
is_completed(m) ==
    IF upper(current_status(m)) = "COMPLETED" THEN TRUE
    ELSE LET drc == IF ~Truthy(m.drc) /\ m.emb # <<>> THEN m.emb[1].drc ELSE m.drc
         IN  Truthy(drc)

(***************************************************************************)
(* poll_ready                                                              *)
(*                                                                         *)
(* now is time.time() in whole seconds from the call of poll_ready.  A     *)
(* call of call_httpie takes 0..MaxCallTime seconds (its retries and       *)
(* sleeps included) and ends with a metadata mapping, with the process     *)
(* dead (die), or with a value that is no mapping (None after a final 429, *)
(* or a JSON list), on which .get raises AttributeError.                   *)
(***************************************************************************)
MaxWait == 3
MaxInterval == 2
MaxCallTime == 1

NoMeta == [status |-> Null, drc |-> Null, emb |-> <<>>]

PStart ==
    /\ max_wait_s \in 0 .. MaxWait
    /\ interval_s \in 1 .. MaxInterval
    /\ deadline = 0
    /\ now = 0
    /\ last = ""
    /\ meta = NoMeta
    /\ ppc = "enter"
    /\ polls = 0
    /\ paging = FALSE

PIdle ==
    /\ max_wait_s = 0
    /\ interval_s = 0
    /\ deadline = 0
    /\ now = 0
    /\ last = ""
    /\ meta = NoMeta
    /\ ppc = "idle"
    /\ polls = 0
    /\ paging = FALSE

\* lines 280-281
PollEnter ==
    /\ ppc = "enter"
    /\ deadline' = now + max_wait_s
    /\ last' = ""
    /\ ppc' = "while"
    /\ UNCHANGED <<max_wait_s, interval_s, now, meta, polls, paging>>
    /\ UNCHANGED <<wvars, hvars, svars, tvars, xvars, fvars, mvars>>

\* line 282 holds and line 283: the metadata request and its answer
PollCall ==
    /\ ppc = "while"
    /\ now < deadline
    /\ \E dt \in 0 .. MaxCallTime : now' = now + dt
    /\ polls' = polls + 1
    /\ \/ \E m \in Metas : meta' = m /\ ppc' = "got"
       \/ meta' = meta /\ ppc' = "transport_died"
       \/ meta' = meta /\ ppc' = "crashed"
    /\ UNCHANGED <<max_wait_s, interval_s, deadline, last, paging>>
    /\ UNCHANGED <<wvars, hvars, svars, tvars, xvars, fvars, mvars>>

\* lines 284-291: log a status change, return when completed, else sleep
PollHandle ==
    /\ ppc = "got"
    /\ LET st == upper(IF current_status(meta) # "" THEN current_status(meta) ELSE "UNKNOWN")
       IN  last' = IF st # last THEN st ELSE last
    /\ IF is_completed(meta)
       THEN ppc' = "returned" /\ now' = now
       ELSE ppc' = "while" /\ now' = now + interval_s
    /\ UNCHANGED <<max_wait_s, interval_s, deadline, meta, polls, paging>>
    /\ UNCHANGED <<wvars, hvars, svars, tvars, xvars, fvars, mvars>>

\* line 282 fails and line 292
PollTimeout ==
    /\ ppc = "while"
    /\ ~(now < deadline)
    /\ ppc' = "timed_out"
    /\ UNCHANGED <<max_wait_s, interval_s, deadline, now, last, meta, polls, paging>>
    /\ UNCHANGED <<wvars, hvars, svars, tvars, xvars, fvars, mvars>>

\* main, lines 589-595, and stream_report_items, line 308: the first page
\* request of the window follows the return of poll_ready
StartPaging ==
    /\ ppc = "returned"
    /\ ~paging
    /\ paging' = TRUE
    /\ UNCHANGED <<max_wait_s, interval_s, deadline, now, last, meta, ppc, polls>>
    /\ UNCHANGED <<wvars, hvars, svars, tvars, xvars, fvars, mvars>>

(***************************************************************************)
(* post_report and extract_report_id                                       *)
(*                                                                         *)
(* A JSON object is a function from its keys to values.  Values are        *)
(* tuples: <<text>> for a plain string, and <<date, "00:00:00">> for the   *)
(* f-string "{start_d} 00:00:00".                                          *)
(***************************************************************************)
EmptyObj == [k \in {} |-> <<>>]

\* dict.update
update(d, e) ==
    [k \in DOMAIN d \cup DOMAIN e |-> IF k \in DOMAIN e THEN e[k] ELSE d[k]]

\* the keys a --filters document may hold in the model, each with one value
FilterValue ==
    [status |-> <<"OPEN">>,
     scan_type |-> <<"STATIC">>,
     report_type |-> <<"SCANS">>,
     last_updated_start_date |-> <<"2020-01-01 00:00:00">>,
     last_updated_end_date |-> <<"2020-12-31 23:59:59">>]

Filters == {[k \in ks |-> FilterValue[k]] : ks \in SUBSET DOMAIN FilterValue}

\* lines 268-274
ReportBody(rt, sd, ed, ex) ==
    update([report_type |-> <<rt>>,
            last_updated_start_date |-> <<sd, "00:00:00">>,
            last_updated_end_date |-> <<ed, "23:59:59">>],
           ex)

\* a creation response: the top-level "id" and the "_embedded" mapping's "id"
\* (emb is <<>> when "_embedded" is absent or no mapping)
PostResponses == [id : {Null, "", "r1"}, emb : {<<>>, <<Null>>, <<"r2">>}]

NoResponse == [id |-> Null, emb |-> <<>>]

\* lines 144-151: the report id, or "" when extract_report_id dies
extract_report_id(r) ==
    LET id == IF ~Truthy(r.id) /\ r.emb # <<>> THEN r.emb[1] ELSE r.id
    IN  IF Truthy(id) THEN id ELSE ""

\* the spans of the windows post_report is called with
MaxSpan == 1

SStart ==
    /\ report_type \in {"FINDINGS", "SCANS"}
    /\ start_d \in {fromordinal(n) : n \in 0 .. MaxFromOrd}
    /\ \E n \in 0 .. MaxSpan : end_d = DateAdd(start_d, n)
    /\ extra \in Filters
    /\ body = EmptyObj
    /\ resp = NoResponse
    /\ rid = ""
    /\ spc = "enter"

SIdle ==
    /\ report_type = ""
    /\ start_d = Null
    /\ end_d = Null
    /\ extra = EmptyObj
    /\ body = EmptyObj
    /\ resp = NoResponse
    /\ rid = ""
    /\ spc = "idle"

\* lines 268-275: build the body and send it
PostSend ==
    /\ spc = "enter"
    /\ body' = ReportBody(report_type, start_d, end_d, extra)
    /\ spc' = "sent"
    /\ UNCHANGED <<report_type, start_d, end_d, extra, resp, rid>>
    /\ UNCHANGED <<wvars, hvars, pvars, tvars, xvars, fvars, mvars>>

\* line 275: call_httpie ends with a mapping, with the process dead, or with
\* a value that is no mapping, on which extract_report_id raises
PostAnswer ==
    /\ spc = "sent"
    /\ \/ \E r \in PostResponses : resp' = r /\ spc' = "answered"
       \/ resp' = resp /\ spc' = "transport_died"
       \/ resp' = resp /\ spc' = "crashed"
    /\ UNCHANGED <<report_type, start_d, end_d, extra, body, rid>>
    /\ UNCHANGED <<wvars, hvars, pvars, tvars, xvars, fvars, mvars>>

\* line 276
PostExtract ==
    /\ spc = "answered"
    /\ rid' = extract_report_id(resp)
    /\ spc' = IF extract_report_id(resp) = "" THEN "died" ELSE "returned"
    /\ UNCHANGED <<report_type, start_d, end_d, extra, body, resp>>
    /\ UNCHANGED <<wvars, hvars, pvars, tvars, xvars, fvars, mvars>>

(***************************************************************************)
(* Pages.  An optional integer is <<>> (absent, or None) or <<n>>.         *)
(*                                                                         *)
(* A page URL is [page, size], its two query parameters.  A page payload   *)
(* is [n_items, link, cands, te]: the length of the item list that         *)
(* extract_items finds, the "_links.next.href" URL (<<>> when there is     *)
(* none, else <<[page, size]>> with size optional), the pagination         *)
(* mappings found at "page", "page_metadata", "_embedded.page" and         *)
(* "_embedded.page_metadata" in that order, each [number, total_pages]     *)
(* with optional fields under either naming style, and the first           *)
(* total-elements value found.                                             *)
(***************************************************************************)
NoMetaFound == [number |-> <<>>, total_pages |-> <<>>]

\* lines 209-238: later mappings overwrite earlier values until both are known
RECURSIVE find_from(_, _, _)
find_from(cands, i, m) ==
    IF i > Len(cands) THEN m
    ELSE LET c == cands[i]
             m1 == [number |-> IF c.number # <<>> THEN c.number ELSE m.number,
                    total_pages |-> IF c.total_pages # <<>> THEN c.total_pages
                                    ELSE m.total_pages]
         IN  IF m1.number # <<>> /\ m1.total_pages # <<>> THEN m1
             ELSE find_from(cands, i + 1, m1)

find_page_meta(payload) == find_from(payload.cands, 1, NoMetaFound)

\* lines 241-262
normalize_page_meta(payload) ==
    LET m == find_page_meta(payload)
    IN  [number |-> m.number, total_pages |-> m.total_pages,
         total_elements |-> payload.te]

\* lines 186-206: the next link, with the requested size when it has none
hal_next_with_size(payload, desired_size) ==
    IF payload.link = <<>> THEN <<>>
    ELSE LET l == payload.link[1]
         IN  <<[page |-> l.page,
                size |-> IF l.size = <<>> THEN desired_size ELSE l.size[1]]>>

\* GET_URL_T.format(rid=rid, page=page, size=size)
GET_URL(pg, sz) == [page |-> pg, size |-> sz]

\* line 328: (num + 1) < tot
has_next_page(num, tot) == num + 1 < tot

\* an advance whose length-based fallback goes on after any non-empty page
advance_nonempty(payload, pno, sz) ==
    LET nxt == hal_next_with_size(payload, sz)
        m == find_page_meta(payload)
    IN  IF nxt # <<>> THEN <<nxt, pno + 1>>
        ELSE IF m.number # <<>> /\ m.total_pages # <<>>
                  /\ has_next_page(m.number[1], m.total_pages[1])
             THEN <<(<<GET_URL(m.number[1] + 1, sz)>>), m.number[1] + 1>>
        ELSE IF payload.n_items > 0 THEN <<(<<GET_URL(pno + 1, sz)>>), pno + 1>>
        ELSE <<(<<>>), pno>>

(***************************************************************************)
(* The end of one iteration of stream_report_items, lines 316-340:         *)
(* <<next_url, page_no>> after the page, next_url = <<>> ending the loop.  *)
(***************************************************************************)
advance(payload, pno, sz) ==
    LET nxt == hal_next_with_size(payload, sz)
        m == find_page_meta(payload)
    IN  IF nxt # <<>> THEN <<nxt, pno + 1>>
        ELSE IF m.number # <<>> /\ m.total_pages # <<>>
                  /\ has_next_page(m.number[1], m.total_pages[1])
             THEN <<(<<GET_URL(m.number[1] + 1, sz)>>), m.number[1] + 1>>
        ELSE IF payload.n_items = sz THEN <<(<<GET_URL(pno + 1, sz)>>), pno + 1>>
        ELSE <<(<<>>), pno>>

(***************************************************************************)
(* The server.  profile fixes the shape of its answers for the whole       *)
(* report:                                                                 *)
(*   "length"   no next link and no pagination metadata;                   *)
(*   "metadata" no next link; every page carries its own zero-based page   *)
(*              number and total_pages = total, and a page past the last   *)
(*              is empty;                                                  *)
(*   "links"    next links, some without a size, some leading back to the  *)
(*              first page, with or without metadata;                      *)
(*   "badmeta"  no next link; metadata that may be missing, split over two *)
(*              mappings, or carry a wrong page number or total.           *)
(***************************************************************************)
MaxSize == 2
MaxTotal == 2
MaxRequests == 3

Profiles == {"length", "metadata", "links", "badmeta"}

Meta1(n, t) == <<[number |-> n, total_pages |-> t]>>

Responses(prof, url, tot) ==
    CASE prof = "length" ->
            {[n_items |-> k, link |-> <<>>, cands |-> <<>>, te |-> <<>>] :
                k \in 0 .. url.size}
      [] prof = "metadata" ->
            {[n_items |-> k, link |-> <<>>,
              cands |-> Meta1(<<url.page>>, <<tot>>), te |-> <<>>] :
                k \in IF url.page < tot THEN 0 .. url.size ELSE {0}}
      [] prof = "links" ->
            {[n_items |-> k, link |-> l, cands |-> c, te |-> <<>>] :
                k \in {0, url.size},
                l \in {<<>>,
                       <<[page |-> url.page + 1, size |-> <<>>]>>,
                       <<[page |-> 0, size |-> <<1>>]>>},
                c \in {<<>>, Meta1(<<url.page>>, <<tot + 1>>)}}
      [] OTHER ->
            {[n_items |-> k, link |-> <<>>, cands |-> c, te |-> <<>>] :
                k \in {0, url.size},
                c \in {<<>>,
                       Meta1(<<url.page>>, <<tot + 1>>),
                       Meta1(<<url.page + 1>>, <<tot + 1>>),
                       Meta1(<<url.page>>, <<>>) \o Meta1(<<>>, <<tot>>)}}

NoPage == [n_items |-> 0, link |-> <<>>, cands |-> <<>>, te |-> <<>>]

TStart ==
    /\ size \in 1 .. MaxSize
    /\ verify \in BOOLEAN
    /\ strict \in BOOLEAN
    /\ profile \in Profiles
    /\ total \in 1 .. MaxTotal
    /\ page_no = 0
    /\ next_url = <<>>
    /\ page = NoPage
    /\ pages_seen_meta = <<>>
    /\ requested = <<>>
    /\ window_total = 0
    /\ audit = <<>>
    /\ exit_status = <<>>
    /\ tpc = "enter"

TIdle ==
    /\ size = 0
    /\ verify = FALSE
    /\ strict = FALSE
    /\ profile = ""
    /\ total = 0
    /\ page_no = 0
    /\ next_url = <<>>
    /\ page = NoPage
    /\ pages_seen_meta = <<>>
    /\ requested = <<>>
    /\ window_total = 0
    /\ audit = <<>>
    /\ exit_status = <<>>
    /\ tpc = "idle"

\* lines 304-305
StreamEnter ==
    /\ tpc = "enter"
    /\ page_no' = 0
    /\ next_url' = <<GET_URL(0, size)>>
    /\ tpc' = "while"
    /\ UNCHANGED <<size, verify, strict, profile, total, page, pages_seen_meta,
                   requested, window_total, audit, exit_status>>
    /\ UNCHANGED <<wvars, hvars, pvars, svars, xvars, fvars, mvars>>

\* one iteration of the while loop, lines 307-340, with the loop of main that
\* takes the marker and the items, lines 595-619
StreamPage ==
    /\ tpc = "while"
    /\ next_url # <<>>
    /\ Len(requested) < MaxRequests
    /\ requested' = Append(requested, next_url[1].page)
    /\ \E pl \in Responses(profile, next_url[1], total) :
          LET adv == advance(pl, page_no, size)
          IN  /\ page' = pl
              /\ pages_seen_meta' =
                    Append(pages_seen_meta,
                           [page_no |-> page_no, count |-> pl.n_items,
                            meta |-> normalize_page_meta(pl)])
              /\ window_total' = window_total + pl.n_items
              /\ next_url' = adv[1]
              /\ page_no' = adv[2]
    /\ UNCHANGED <<size, verify, strict, profile, total, audit, exit_status, tpc>>
    /\ UNCHANGED <<wvars, hvars, pvars, svars, xvars, fvars, mvars>>

\* line 308: call_httpie dies (exit code 2 or the return code of http), or it
\* returns a value that is no mapping and extract_items raises (exit code 1)
StreamAbort ==
    /\ tpc = "while"
    /\ next_url # <<>>
    /\ Len(requested) < MaxRequests
    /\ requested' = Append(requested, next_url[1].page)
    /\ \/ tpc' = "transport_died" /\ exit_status' = <<2>>
       \/ tpc' = "crashed" /\ exit_status' = <<1>>
    /\ UNCHANGED <<size, verify, strict, profile, total, page_no, next_url, page,
                   pages_seen_meta, window_total, audit>>
    /\ UNCHANGED <<wvars, hvars, pvars, svars, xvars, fvars, mvars>>

\* line 307 fails: the generator is exhausted
StreamEnd ==
    /\ tpc = "while"
    /\ next_url = <<>>
    /\ tpc' = "streamed"
    /\ UNCHANGED <<size, verify, strict, profile, total, page_no, next_url, page,
                   pages_seen_meta, requested, window_total, audit, exit_status>>
    /\ UNCHANGED <<wvars, hvars, pvars, svars, xvars, fvars, mvars>>

\* lines 626-629: every non-None value of every page's meta is assigned in
\* page order
RECURSIVE merge_meta(_, _, _)
merge_meta(metas, i, merged) ==
    IF i > Len(metas) THEN merged
    ELSE LET m == metas[i].meta
         IN  merge_meta(metas, i + 1,
                 [number |-> IF m.number # <<>> THEN m.number ELSE merged.number,
                  total_pages |-> IF m.total_pages # <<>> THEN m.total_pages
                                  ELSE merged.total_pages,
                  total_elements |-> IF m.total_elements # <<>> THEN m.total_elements
                                     ELSE merged.total_elements])

NoMerged == [number |-> <<>>, total_pages |-> <<>>, total_elements |-> <<>>]

\* lines 623-651
make_audit(metas, collected) ==
    LET seen_indexes == {metas[i].page_no : i \in 1 .. Len(metas)}
        merged == merge_meta(metas, 1, NoMerged)
    IN  [page_indexes_seen |-> seen_indexes,
         pages_seen_count |-> Cardinality(seen_indexes),
         total_pages_reported |-> merged.total_pages,
         total_elements_reported |-> merged.total_elements,
         collected_count_after_verify |-> collected,
         strict_ok |-> TRUE]

\* lines 621-655: the verification of the window, when requested
Verify ==
    /\ tpc = "streamed"
    /\ audit' = IF verify THEN <<make_audit(pages_seen_meta, window_total)>> ELSE audit
    /\ tpc' = "window_done"
    /\ UNCHANGED <<size, verify, strict, profile, total, page_no, next_url, page,
                   pages_seen_meta, requested, window_total, exit_status>>
    /\ UNCHANGED <<wvars, hvars, pvars, svars, xvars, fvars, mvars>>

\* lines 658-667: the outputs are written and main returns
Exit ==
    /\ tpc = "window_done"
    /\ exit_status' = <<0>>
    /\ tpc' = "exited"
    /\ UNCHANGED <<size, verify, strict, profile, total, page_no, next_url, page,
                   pages_seen_meta, requested, window_total, audit>>
    /\ UNCHANGED <<wvars, hvars, pvars, svars, xvars, fvars, mvars>>

(***************************************************************************)
(* The writers.  all_items is the accumulated stream: item i is either a   *)
(* page-boundary marker, <<"__PAGE_META__", i>>, or the record             *)
(* <<"finding", i>>, named by its position.  A file is the sequence of its *)
(* lines or data rows, a                                                   *)
(* workbook the function from the index of each sheet that was written to  *)
(* the sequence of that sheet's data rows.                                 *)
(***************************************************************************)
MaxItems == 5
MaxChunk == 2
MaxCap == 4

\* "__PAGE_META__" in obj
is_marker(obj) == obj[1] = "__PAGE_META__"

Streams ==
    UNION {{[i \in 1 .. n |-> IF i \in ms THEN <<"__PAGE_META__", i>> ELSE <<"finding", i>>] :
               ms \in SUBSET (1 .. n)} : n \in 0 .. MaxItems}

RECURSIVE non_markers(_)
non_markers(items) ==
    IF items = <<>> THEN <<>>
    ELSE IF is_marker(Head(items)) THEN non_markers(Tail(items))
    ELSE <<Head(items)>> \o non_markers(Tail(items))

\* a write_jsonl that writes the page-boundary markers too
write_jsonl_with_markers(items) == items

\* lines 345-353: one line per item that is no marker
write_jsonl(items) == non_markers(items)

\* lines 397-410: one row per line of the line-delimited file
write_csv(lines) == lines

(***************************************************************************)
(* df.to_excel(writer, index=False, sheet_name=...) with the default       *)
(* startrow: the frame is written from the top of the named sheet, which   *)
(* is created when the workbook has none of that name.  Cells of the sheet *)
(* below the frame keep what an earlier call wrote there.                  *)
(***************************************************************************)
to_excel(wb, idx, rows) ==
    LET old == IF idx \in DOMAIN wb THEN wb[idx] ELSE <<>>
        new == rows \o SubSeq(old, Len(rows) + 1, Len(old))
    IN  [i \in DOMAIN wb \cup {idx} |-> IF i = idx THEN new ELSE wb[i]]

NoSheets == [i \in {} |-> <<>>]

\* the local state of write_xlsx_one_workbook_from_jsonl
XState(wb, idx, buf, written) ==
    [sheets |-> wb, sheet_idx |-> idx, rows_buffer |-> buf, sheet_rows_written |-> written]

\* lines 436-449
flush_buffer_to_sheet(x) ==
    IF x.rows_buffer = <<>> THEN x
    ELSE XState(to_excel(x.sheets, x.sheet_idx, x.rows_buffer), x.sheet_idx, <<>>,
                x.sheet_rows_written + Len(x.rows_buffer))

\* lines 460-463 and 479-481: flush, then move to a new sheet
roll_sheet(x) ==
    LET f == flush_buffer_to_sheet(x)
    IN  XState(f.sheets, f.sheet_idx + 1, f.rows_buffer, 0)

\* lines 464-471
RECURSIVE cut_full_sheets(_, _)
cut_full_sheets(x, cap) ==
    IF Len(x.rows_buffer) > cap
    THEN cut_full_sheets(
             XState(to_excel(x.sheets, x.sheet_idx, SubSeq(x.rows_buffer, 1, cap)),
                    x.sheet_idx + 1,
                    SubSeq(x.rows_buffer, cap + 1, Len(x.rows_buffer)),
                    x.sheet_rows_written),
             cap)
    ELSE x

\* lines 456-474: one line of the file is appended to the buffer
xlsx_line(x, row, chunk, cap) ==
    LET a == XState(x.sheets, x.sheet_idx, Append(x.rows_buffer, row), x.sheet_rows_written)
    IN  IF Len(a.rows_buffer) >= chunk
        THEN IF a.sheet_rows_written + Len(a.rows_buffer) > cap
             THEN flush_buffer_to_sheet(
                      cut_full_sheets(IF a.sheet_rows_written > 0 THEN roll_sheet(a) ELSE a,
                                      cap))
             ELSE flush_buffer_to_sheet(a)
        ELSE a

\* lines 476-482
xlsx_final(x, cap) ==
    IF x.rows_buffer # <<>>
    THEN flush_buffer_to_sheet(
             IF x.sheet_rows_written + Len(x.rows_buffer) > cap THEN roll_sheet(x) ELSE x)
    ELSE x

XStart ==
    /\ all_items \in Streams
    /\ no_csv \in BOOLEAN
    /\ no_xlsx \in BOOLEAN
    /\ chunk_size \in 1 .. MaxChunk
    /\ max_rows_per_sheet \in 1 .. MaxCap
    /\ jsonl = <<>>
    /\ json_arr = <<>>
    /\ csv_rows = <<>>
    /\ sheets = NoSheets
    /\ sheet_idx = 0
    /\ rows_buffer = <<>>
    /\ sheet_rows_written = 0
    /\ lineno = 0
    /\ xpc = "enter"

XIdle ==
    /\ all_items = <<>>
    /\ no_csv = FALSE
    /\ no_xlsx = FALSE
    /\ chunk_size = 0
    /\ max_rows_per_sheet = 0
    /\ jsonl = <<>>
    /\ json_arr = <<>>
    /\ csv_rows = <<>>
    /\ sheets = NoSheets
    /\ sheet_idx = 0
    /\ rows_buffer = <<>>
    /\ sheet_rows_written = 0
    /\ lineno = 0
    /\ xpc = "idle"

\* lines 503-512: the line-delimited file, the JSON array, the union header
WriteJsonAndJsonl ==
    /\ xpc = "enter"
    /\ jsonl' = write_jsonl(all_items)
    /\ json_arr' = SelectSeq(all_items, LAMBDA o : ~is_marker(o))
    /\ xpc' = "csv"
    /\ UNCHANGED <<all_items, no_csv, no_xlsx, chunk_size, max_rows_per_sheet, csv_rows,
                   sheets, sheet_idx, rows_buffer, sheet_rows_written, lineno>>
    /\ UNCHANGED <<wvars, hvars, pvars, svars, tvars, fvars, mvars>>

\* lines 514-517
WriteCsv ==
    /\ xpc = "csv"
    /\ csv_rows' = IF no_csv THEN csv_rows ELSE write_csv(jsonl)
    /\ xpc' = IF no_xlsx THEN "done" ELSE "xlsx"
    /\ UNCHANGED <<all_items, no_csv, no_xlsx, chunk_size, max_rows_per_sheet, jsonl,
                   json_arr, sheets, sheet_idx, rows_buffer, sheet_rows_written, lineno>>
    /\ UNCHANGED <<wvars, hvars, pvars, svars, tvars, fvars, mvars>>

\* lines 422-434: pandas is there and the workbook is opened
XlsxOpen ==
    /\ xpc = "xlsx"
    /\ sheet_idx' = 1
    /\ rows_buffer' = <<>>
    /\ sheet_rows_written' = 0
    /\ lineno' = 0
    /\ xpc' = "lines"
    /\ UNCHANGED <<all_items, no_csv, no_xlsx, chunk_size, max_rows_per_sheet, jsonl,
                   json_arr, csv_rows, sheets>>
    /\ UNCHANGED <<wvars, hvars, pvars, svars, tvars, fvars, mvars>>

\* lines 422-425: pandas cannot be imported
XlsxNoPandas ==
    /\ xpc = "xlsx"
    /\ xpc' = "died"
    /\ UNCHANGED <<all_items, no_csv, no_xlsx, chunk_size, max_rows_per_sheet, jsonl,
                   json_arr, csv_rows, sheets, sheet_idx, rows_buffer,
                   sheet_rows_written, lineno>>
    /\ UNCHANGED <<wvars, hvars, pvars, svars, tvars, fvars, mvars>>

\* one iteration of the for loop of lines 452-474
XlsxLine ==
    /\ xpc = "lines"
    /\ lineno < Len(jsonl)
    /\ LET x == xlsx_line(XState(sheets, sheet_idx, rows_buffer, sheet_rows_written),
                          jsonl[lineno + 1], chunk_size, max_rows_per_sheet)
       IN  /\ sheets' = x.sheets
           /\ sheet_idx' = x.sheet_idx
           /\ rows_buffer' = x.rows_buffer
           /\ sheet_rows_written' = x.sheet_rows_written
    /\ lineno' = lineno + 1
    /\ UNCHANGED <<all_items, no_csv, no_xlsx, chunk_size, max_rows_per_sheet, jsonl,
                   json_arr, csv_rows, xpc>>
    /\ UNCHANGED <<wvars, hvars, pvars, svars, tvars, fvars, mvars>>

\* lines 476-485: the final flush, and the workbook is closed
XlsxClose ==
    /\ xpc = "lines"
    /\ lineno = Len(jsonl)
    /\ LET x == xlsx_final(XState(sheets, sheet_idx, rows_buffer, sheet_rows_written),
                           max_rows_per_sheet)
       IN  /\ sheets' = x.sheets
           /\ sheet_idx' = x.sheet_idx
           /\ rows_buffer' = x.rows_buffer
           /\ sheet_rows_written' = x.sheet_rows_written
    /\ xpc' = "done"
    /\ UNCHANGED <<all_items, no_csv, no_xlsx, chunk_size, max_rows_per_sheet, jsonl,
                   json_arr, csv_rows, lineno>>
    /\ UNCHANGED <<wvars, hvars, pvars, svars, tvars, fvars, mvars>>

(***************************************************************************)
(* build_headers_from_jsonl and flatten_for_row                            *)
(*                                                                         *)
(* A string is the sequence of its characters, so that the f-string        *)
(* "{prefix}.{k}" is a concatenation.  A mapping is the sequence of its    *)
(* <<key, value>> items in insertion order, with distinct keys.  A value   *)
(* is <<"s", v>> for the scalar v, <<"l", e1, ..., en>> for the list of    *)
(* the scalars e1..en, or <<"d", mapping>>.  A cell of a row is <<"s", v>> *)
(* for a scalar, <<"text", c1, ..., cn>> for a string of JSON text, or     *)
(* <<"None">>.                                                             *)
(***************************************************************************)
MaxFields == 2
MaxInner == 1

Keys == {<<"a">>, <<"b">>, <<"a", ".", "b">>}

Scalars == {<<"s", "x">>, <<"s", "y">>}

Lists == {<<"l">>, <<"l", "x">>}

\* the mappings of at most n items whose values come from vals
RECURSIVE Mappings(_, _)
Mappings(n, vals) ==
    IF n = 0 THEN {<<>>}
    ELSE LET shorter == Mappings(n - 1, vals)
         IN  shorter \cup
             {Append(m, <<k, v>>) :
                 m \in {s \in shorter : Len(s) = n - 1},
                 k \in Keys, v \in vals}

DistinctKeys(m) == \A i, j \in 1 .. Len(m) : m[i][1] = m[j][1] => i = j

InnerMappings == {m \in Mappings(MaxInner, Scalars \cup Lists) : DistinctKeys(m)}

FlatRecords ==
    {m \in Mappings(MaxFields, Scalars \cup Lists \cup {<<"d", i>> : i \in InnerMappings}) :
        DistinctKeys(m)}

\* another line of the file
OtherRecord == <<(<<(<<"b">>), (<<"s", "y">>)>>)>>

\* lines 361 and 385: key = f"{prefix}.{k}" if prefix else k
join(prefix, k) == IF prefix = <<>> THEN k ELSE prefix \o <<".">> \o k

\* lines 358-366
RECURSIVE flatten_keys(_, _)
flatten_keys(d, prefix) ==
    UNION {LET key == join(prefix, d[i][1])
               v == d[i][2]
           IN  IF v[1] = "d" THEN flatten_keys(v[2], key) ELSE {key} :
           i \in 1 .. Len(d)}

\* lines 368-376: the union of the flattened keys of every line; the sorted
\* list is kept as the set of its elements
build_headers_from_jsonl(lines) ==
    UNION {flatten_keys(lines[i], <<>>) : i \in 1 .. Len(lines)}

\* json.dumps(v, ensure_ascii=False) of a list of strings
RECURSIVE dumps_elems(_)
dumps_elems(es) ==
    IF es = <<>> THEN <<>>
    ELSE <<"\"", Head(es), "\"">>
             \o (IF Tail(es) = <<>> THEN <<>> ELSE <<",", " ">> \o dumps_elems(Tail(es)))

json_dumps(es) == <<"text", "[">> \o dumps_elems(es) \o <<"]">>

\* out[key] = value
setitem(acc, key, value) ==
    [h \in DOMAIN acc \cup {key} |-> IF h = key THEN value ELSE acc[h]]

EmptyRow == [h \in {} |-> <<"None">>]

\* lines 381-392: the items are visited in insertion order
RECURSIVE flatten(_, _, _)
flatten(d0, prefix, acc) ==
    IF d0 = <<>> THEN acc
    ELSE LET key == join(prefix, Head(d0)[1])
             v == Head(d0)[2]
             acc1 == IF v[1] = "d" THEN flatten(v[2], key, acc)
                     ELSE IF v[1] = "l" THEN setitem(acc, key, json_dumps(Tail(v)))
                     ELSE setitem(acc, key, v)
         IN  flatten(Tail(d0), prefix, acc1)

\* lines 393-394
flatten_for_row(d, hs) ==
    LET flat == flatten(d, <<>>, EmptyRow)
    IN  [h \in hs |-> IF h \in DOMAIN flat THEN flat[h] ELSE <<"None">>]

FStart ==
    /\ rec \in FlatRecords
    /\ file \in {<<rec>>, <<rec, OtherRecord>>, <<OtherRecord, rec>>}
    /\ headers = {}
    /\ flat_row = EmptyRow
    /\ fpc = "headers"

FIdle ==
    /\ rec = <<>>
    /\ file = <<>>
    /\ headers = {}
    /\ flat_row = EmptyRow
    /\ fpc = "idle"

\* write_all_outputs, line 512
BuildHeaders ==
    /\ fpc = "headers"
    /\ headers' = build_headers_from_jsonl(file)
    /\ fpc' = "row"
    /\ UNCHANGED <<rec, file, flat_row>>
    /\ UNCHANGED <<wvars, hvars, pvars, svars, tvars, xvars, mvars>>

\* write_csv_single_from_jsonl, line 409, for the line that holds rec
FlattenRow ==
    /\ fpc = "row"
    /\ flat_row' = flatten_for_row(rec, headers)
    /\ fpc' = "done"
    /\ UNCHANGED <<rec, file, headers>>
    /\ UNCHANGED <<wvars, hvars, pvars, svars, tvars, xvars, mvars>>

(***************************************************************************)
(* main: the order of its steps.                                           *)
(*                                                                         *)
(* filters_doc says what --filters names: "none" when the option is not    *)
(* given, "unreadable" for a file that cannot be read or decoded,          *)
(* "not_json" for text json.loads rejects, "not_object" for JSON that is   *)
(* no object, "object" for a JSON object.  events is the log of the run:   *)
(* <<"submit", w>>, <<"poll", w>> and <<"page", w>> when a call of         *)
(* call_httpie of window w is made (the submission, a status request, a    *)
(* page request), <<"ready", w>> when poll_ready returns, <<"audit", w>>   *)
(* for the write of the audit document of window w and <<"outputs">> for   *)
(* write_all_outputs.  outstanding counts the calls of call_httpie that    *)
(* have been made and have not ended; a call ends when it returns or the   *)
(* process exits in it.  mexit is the exit status, -1 while the process    *)
(* runs.                                                                   *)
(***************************************************************************)
MaxPolls == 2
MaxPages == 2

FilterDocs == {"none", "unreadable", "not_json", "not_object", "object"}

\* the --to dates of the runs: within the first window, around its end, and
\* the latest date
MainToOrds == {0, 1, step - 1, step, MaxToOrd}

\* a filter check that takes any JSON document
filters_ok_any_json(doc) == doc \in {"none", "object", "not_object"}

\* lines 567-573: no --filters, or a readable JSON object
filters_ok(doc) == doc \in {"none", "object"}

\* lines 130-139, the value windows_180 returns when it does not die
RECURSIVE windows_from(_, _)
windows_from(c, e) ==
    IF DateLE(c, e)
    THEN <<(<<c, WindowEnd(c, e)>>)>> \o windows_from(WindowNext(WindowEnd(c, e)), e)
    ELSE <<>>

\* the number of events of one kind for window w
CountEvents(kind, w) ==
    Cardinality({i \in 1 .. Len(events) : events[i] = <<kind, w>>})

MStart ==
    /\ env_ok \in BOOLEAN
    /\ filters_doc \in FilterDocs
    /\ date_from \in {fromordinal(n) : n \in 0 .. MaxFromOrd}
    /\ date_to \in {fromordinal(n) : n \in MainToOrds}
    /\ args_verify \in BOOLEAN
    /\ windows = <<>>
    /\ widx = 0
    /\ events = <<>>
    /\ mexit = -1
    /\ mpc = "check_env"
    /\ outstanding = 0

MIdle ==
    /\ env_ok = FALSE
    /\ filters_doc = "none"
    /\ date_from = Null
    /\ date_to = Null
    /\ args_verify = FALSE
    /\ windows = <<>>
    /\ widx = 0
    /\ events = <<>>
    /\ mexit = -1
    /\ mpc = "idle"
    /\ outstanding = 0

\* line 533 and check_env, lines 54-56
MainCheckEnv ==
    /\ mpc = "check_env"
    /\ IF env_ok
       THEN mpc' = "filters" /\ mexit' = mexit
       ELSE mpc' = "exited" /\ mexit' = 2
    /\ UNCHANGED <<env_ok, filters_doc, date_from, date_to, args_verify, windows, widx,
                   events, outstanding>>
    /\ UNCHANGED <<wvars, hvars, pvars, svars, tvars, xvars, fvars>>

\* lines 566-573: die raises SystemExit, which except Exception lets through
MainFilters ==
    /\ mpc = "filters"
    /\ IF filters_ok(filters_doc)
       THEN mpc' = "windows" /\ mexit' = mexit
       ELSE mpc' = "exited" /\ mexit' = 2
    /\ UNCHANGED <<env_ok, filters_doc, date_from, date_to, args_verify, windows, widx,
                   events, outstanding>>
    /\ UNCHANGED <<wvars, hvars, pvars, svars, tvars, xvars, fvars>>

\* lines 575-583, with windows_180, lines 126-139
MainWindows ==
    /\ mpc = "windows"
    /\ IF DateLT(date_to, date_from)
       THEN /\ mpc' = "exited"
            /\ mexit' = 2
            /\ UNCHANGED <<windows, widx>>
       ELSE /\ windows' = windows_from(date_from, date_to)
            /\ widx' = 1
            /\ mpc' = "submit"
            /\ mexit' = mexit
    /\ UNCHANGED <<env_ok, filters_doc, date_from, date_to, args_verify, events,
                   outstanding>>
    /\ UNCHANGED <<wvars, hvars, pvars, svars, tvars, xvars, fvars>>

\* line 585 and post_report, line 275: the submission is sent
MainSubmit ==
    /\ mpc = "submit"
    /\ events' = Append(events, <<"submit", widx>>)
    /\ outstanding' = outstanding + 1
    /\ mpc' = "submit_wait"
    /\ UNCHANGED <<env_ok, filters_doc, date_from, date_to, args_verify, windows, widx,
                   mexit>>
    /\ UNCHANGED <<wvars, hvars, pvars, svars, tvars, xvars, fvars>>

\* line 589 and poll_ready, lines 282-283: one status request is sent
MainPoll ==
    /\ mpc = "poll"
    /\ CountEvents("poll", widx) < MaxPolls
    /\ events' = Append(events, <<"poll", widx>>)
    /\ outstanding' = outstanding + 1
    /\ mpc' = "poll_wait"
    /\ UNCHANGED <<env_ok, filters_doc, date_from, date_to, args_verify, windows, widx,
                   mexit>>
    /\ UNCHANGED <<wvars, hvars, pvars, svars, tvars, xvars, fvars>>

\* poll_ready, lines 282 and 292: the deadline has passed
MainPollTimeout ==
    /\ mpc = "poll"
    /\ mpc' = "exited"
    /\ mexit' = 2
    /\ UNCHANGED <<env_ok, filters_doc, date_from, date_to, args_verify, windows, widx,
                   events, outstanding>>
    /\ UNCHANGED <<wvars, hvars, pvars, svars, tvars, xvars, fvars>>

\* a page loop that sends the next page request without waiting for the
\* answer to the one before
MainPage_NoWait ==
    /\ mpc \in {"page", "page_wait"}
    /\ CountEvents("page", widx) < MaxPages
    /\ events' = Append(events, <<"page", widx>>)
    /\ outstanding' = outstanding + 1
    /\ mpc' = "page_wait"
    /\ UNCHANGED <<env_ok, filters_doc, date_from, date_to, args_verify, windows, widx,
                   mexit>>
    /\ UNCHANGED <<wvars, hvars, pvars, svars, tvars, xvars, fvars>>

\* lines 595-619 and stream_report_items, line 308: one page request is sent
MainPage ==
    /\ mpc = "page"
    /\ CountEvents("page", widx) < MaxPages
    /\ events' = Append(events, <<"page", widx>>)
    /\ outstanding' = outstanding + 1
    /\ mpc' = "page_wait"
    /\ UNCHANGED <<env_ok, filters_doc, date_from, date_to, args_verify, windows, widx,
                   mexit>>
    /\ UNCHANGED <<wvars, hvars, pvars, svars, tvars, xvars, fvars>>

(***************************************************************************)
(* call_httpie ends, lines 72-122 (subprocess.run blocks until http has    *)
(* ended), and its caller goes on: post_report returns the report id       *)
(* (line 276); poll_ready sleeps and polls again or returns (lines         *)
(* 289-291); stream_report_items sets the next URL or ends (lines          *)
(* 316-340).  Or the process ends in the call or in the caller's use of    *)
(* its value: die, exit status 2, or an exception on a value that is no    *)
(* mapping, exit status 1.                                                 *)
(***************************************************************************)
MainAnswer ==
    /\ mpc \in {"submit_wait", "poll_wait", "page_wait"}
    /\ outstanding' = outstanding - 1
    /\ \/ /\ mpc = "submit_wait"
          /\ mpc' = "poll"
          /\ UNCHANGED <<events, mexit>>
       \/ /\ mpc = "poll_wait"
          /\ mpc' = "poll"
          /\ UNCHANGED <<events, mexit>>
       \/ /\ mpc = "poll_wait"
          /\ mpc' = "page"
          /\ events' = Append(events, <<"ready", widx>>)
          /\ mexit' = mexit
       \/ /\ mpc = "page_wait"
          /\ mpc' = "page"
          /\ UNCHANGED <<events, mexit>>
       \/ /\ mpc = "page_wait"
          /\ mpc' = "verify"
          /\ UNCHANGED <<events, mexit>>
       \/ /\ mpc' = "exited"
          /\ \E code \in {1, 2} : mexit' = code
          /\ events' = events
    /\ UNCHANGED <<env_ok, filters_doc, date_from, date_to, args_verify, windows, widx>>
    /\ UNCHANGED <<wvars, hvars, pvars, svars, tvars, xvars, fvars>>

\* a verification that also writes the outputs of the window
MainVerify_WritesOutputs ==
    /\ mpc = "verify"
    /\ events' = (IF args_verify THEN Append(events, <<"audit", widx>>) ELSE events)
                     \o <<(<<"outputs">>)>>
    /\ IF widx < Len(windows)
       THEN widx' = widx + 1 /\ mpc' = "submit"
       ELSE widx' = widx /\ mpc' = "outputs"
    /\ UNCHANGED <<env_ok, filters_doc, date_from, date_to, args_verify, windows, mexit,
                   outstanding>>
    /\ UNCHANGED <<wvars, hvars, pvars, svars, tvars, xvars, fvars>>

\* lines 621-655, and the for statement of line 583
MainVerify ==
    /\ mpc = "verify"
    /\ events' = IF args_verify THEN Append(events, <<"audit", widx>>) ELSE events
    /\ IF widx < Len(windows)
       THEN widx' = widx + 1 /\ mpc' = "submit"
       ELSE widx' = widx /\ mpc' = "outputs"
    /\ UNCHANGED <<env_ok, filters_doc, date_from, date_to, args_verify, windows, mexit,
                   outstanding>>
    /\ UNCHANGED <<wvars, hvars, pvars, svars, tvars, xvars, fvars>>

\* lines 658-667: the outputs are written and main returns, or the workbook
\* writer dies for want of pandas
MainWriteOutputs ==
    /\ mpc = "outputs"
    /\ events' = Append(events, <<"outputs">>)
    /\ mpc' = "exited"
    /\ mexit' \in {0, 2}
    /\ UNCHANGED <<env_ok, filters_doc, date_from, date_to, args_verify, windows, widx,
                   outstanding>>
    /\ UNCHANGED <<wvars, hvars, pvars, svars, tvars, xvars, fvars>>

WInit == WStart /\ HIdle /\ PIdle /\ SIdle /\ TIdle /\ XIdle /\ FIdle /\ MIdle

HInit == WIdle /\ HStart /\ PIdle /\ SIdle /\ TIdle /\ XIdle /\ FIdle /\ MIdle

PInit == WIdle /\ HIdle /\ PStart /\ SIdle /\ TIdle /\ XIdle /\ FIdle /\ MIdle

SInit == WIdle /\ HIdle /\ PIdle /\ SStart /\ TIdle /\ XIdle /\ FIdle /\ MIdle

TInit == WIdle /\ HIdle /\ PIdle /\ SIdle /\ TStart /\ XIdle /\ FIdle /\ MIdle

XInit == WIdle /\ HIdle /\ PIdle /\ SIdle /\ TIdle /\ XStart /\ FIdle /\ MIdle

FInit == WIdle /\ HIdle /\ PIdle /\ SIdle /\ TIdle /\ XIdle /\ FStart /\ MIdle

MInit == WIdle /\ HIdle /\ PIdle /\ SIdle /\ TIdle /\ XIdle /\ FIdle /\ MStart

WNext == WindowsEnter \/ WindowsStep \/ WindowsReturn

HNext == HttpRun \/ HttpNotInstalled \/ HttpDecide

PNext == PollEnter \/ PollCall \/ PollHandle \/ PollTimeout \/ StartPaging

SNext == PostSend \/ PostAnswer \/ PostExtract

TNext == StreamEnter \/ StreamPage \/ StreamAbort \/ StreamEnd \/ Verify \/ Exit

XNext == WriteJsonAndJsonl \/ WriteCsv \/ XlsxOpen \/ XlsxNoPandas \/ XlsxLine \/ XlsxClose

FNext == BuildHeaders \/ FlattenRow

MNext ==
    \/ MainCheckEnv \/ MainFilters \/ MainWindows \/ MainSubmit \/ MainPoll
    \/ MainPollTimeout \/ MainPage \/ MainAnswer \/ MainVerify \/ MainWriteOutputs

vars == <<wvars, hvars, pvars, svars, tvars, xvars, fvars, mvars>>

SpecWindows == WInit /\ [][WNext]_vars

SpecHttp == HInit /\ [][HNext]_vars

SpecPoll == PInit /\ [][PNext]_vars

SpecSubmit == SInit /\ [][SNext]_vars

SpecStream == TInit /\ [][TNext]_vars

SpecWriter == XInit /\ [][XNext]_vars

SpecFlatten == FInit /\ [][FNext]_vars

SpecMain == MInit /\ [][MNext]_vars

WinDays(w) == toordinal(w[1]) .. toordinal(w[2])

(***************************************************************************)
(* C1: for start <= end the windows returned by windows_180 are ordered,   *)
(* the first starts at start, the last ends at end, every window has       *)
(* start <= end and at most 180 days, each window begins the day after the *)
(* previous one ends, so every day of [start, end] lies in exactly one     *)
(* window and no window holds a day outside [start, end].                  *)
(***************************************************************************)
C1_WindowsPartition ==
    (wpc = "done") =>
        /\ Len(out) >= 1
        /\ out[1][1] = from_d
        /\ out[Len(out)][2] = to_d
        /\ \A i \in 1 .. Len(out) :
              /\ DateLE(out[i][1], out[i][2])
              /\ toordinal(out[i][2]) - toordinal(out[i][1]) + 1 <= 180
              /\ WinDays(out[i]) \subseteq toordinal(from_d) .. toordinal(to_d)
        /\ \A i \in 1 .. Len(out) - 1 : out[i + 1][1] = DateAdd(out[i][2], 1)
        /\ \A n \in toordinal(from_d) .. toordinal(to_d) :
              Cardinality({i \in 1 .. Len(out) : n \in WinDays(out[i])}) = 1

C1_Witness ==
    /\ wpc = "done"
    /\ Len(out) = 3
    /\ toordinal(out[1][2]) - toordinal(out[1][1]) + 1 = 180
    /\ toordinal(out[3][2]) - toordinal(out[3][1]) + 1 < 180

PureTransient(p) ==
    p.rc # 0 /\ transient(p.stderr) /\ ~rate_limited(p.stderr) /\ ~unauthorized(p.stderr)

(***************************************************************************)
(* C2: k transient failures (5xx, read timeout, connection reset, EOF)     *)
(* followed by a successful parseable response make call_httpie return     *)
(* that payload after exactly k + 1 transport attempts, for k = 0..6; 7    *)
(* transient failures in a row abort fatally after the 7th attempt, and    *)
(* there is no 8th attempt.                                                *)
(***************************************************************************)
C2_TransientBudget ==
    /\ made <= 7
    /\ (hpc # "decide" /\ nTransient = made - 1 /\ proc.rc = 0 /\ proc.body = "json")
          => (hpc = "returned" /\ hres = "payload" /\ made = nTransient + 1 /\ hexit = -1)
    /\ (hpc # "decide" /\ nTransient = 7)
          => (hpc = "died" /\ made = 7 /\ hexit > 0)
    /\ (hpc \in {"died", "fell"} /\ PureTransient(proc) /\ nTransient = made)
          => made = 7

C2_Witness ==
    hpc = "returned" /\ made = 7 /\ nTransient = 6 /\ hres = "payload"

(***************************************************************************)
(* C3: an attempt whose error output carries the 401 / Unauthorized marker *)
(* aborts the process on that same attempt, whatever other markers the     *)
(* error output carries; no further attempt follows it.                    *)
(***************************************************************************)
C3_AuthFailsFast ==
    (hpc # "decide" /\ proc.rc # 0 /\ unauthorized(proc.stderr))
        => (hpc = "died" /\ made = attempt)

(***************************************************************************)
(* C4: a 429 attempt is always followed by a sleep and another transport   *)
(* attempt, at every attempt number 1..7; a call never ends on a 429.      *)
(***************************************************************************)
C4_RateLimitedAlwaysRetried ==
    (hpc # "decide" /\ proc.rc # 0 /\ rate_limited(proc.stderr))
        => (hpc = "run" /\ lastsleep # "none" /\ attempt = made + 1)

PagesMismatch ==
    /\ audit # <<>>
    /\ audit[1].total_pages_reported # <<>>
    /\ audit[1].pages_seen_count # audit[1].total_pages_reported[1]

(***************************************************************************)
(* C5: with verification and strict mode both on, a window whose number of *)
(* distinct page indexes seen differs from the reported total page count   *)
(* makes the process exit non-zero; with verification on and strict mode   *)
(* off the exit status stays 0 and the audit records both counts.          *)
(***************************************************************************)
C5_StrictMismatchExit ==
    (tpc = "exited" /\ verify /\ PagesMismatch) =>
        IF strict THEN exit_status # <<0>> ELSE exit_status = <<0>>

(***************************************************************************)
(* C6: with no next links and every page carrying its zero-based page      *)
(* number and total_pages = T, the traversal emits exactly T markers with  *)
(* page_no 0 .. T-1 in order, whatever the item count of each page, and    *)
(* the audit has pages_seen_count = T = total_pages_reported.              *)
(***************************************************************************)
C6_MetadataMarkers ==
    (profile = "metadata" /\ tpc \in {"streamed", "window_done", "exited"}) =>
        /\ Len(pages_seen_meta) = total
        /\ \A i \in 1 .. Len(pages_seen_meta) : pages_seen_meta[i].page_no = i - 1
        /\ (audit # <<>>) =>
              /\ audit[1].pages_seen_count = total
              /\ audit[1].total_pages_reported = <<total>>

(***************************************************************************)
(* C7: with neither next links nor page metadata the traversal requests    *)
(* page indexes 0, 1, 2, ... in strictly increasing order, none twice,     *)
(* goes on after every page that holds exactly size items and stops right  *)
(* after the first page that holds fewer, an empty one included.           *)
(***************************************************************************)
C7_LengthTraversal ==
    (profile = "length") =>
        /\ \A i \in 1 .. Len(requested) : requested[i] = i - 1
        /\ \A i \in 1 .. Len(pages_seen_meta) - 1 : pages_seen_meta[i].count = size
        /\ (tpc = "while" /\ pages_seen_meta # <<>>) =>
              IF pages_seen_meta[Len(pages_seen_meta)].count = size
              THEN next_url = <<GET_URL(Len(requested), size)>>
              ELSE next_url = <<>>
        /\ (tpc \in {"streamed", "window_done", "exited"}) =>
              /\ pages_seen_meta # <<>>
              /\ pages_seen_meta[Len(pages_seen_meta)].count < size
              /\ Len(requested) = Len(pages_seen_meta)

C7_Witness ==
    /\ profile = "length"
    /\ tpc = "streamed"
    /\ size = 2
    /\ Len(requested) = 3
    /\ pages_seen_meta[3].count = 0

RECURSIVE SumRows(_, _)
SumRows(wb, idxs) ==
    IF idxs = {} THEN 0
    ELSE LET i == CHOOSE i \in idxs : TRUE
         IN  Len(wb[i]) + SumRows(wb, idxs \ {i})

Records == {i \in 1 .. Len(all_items) : all_items[i][1] = "finding"}

(***************************************************************************)
(* C8: in a run with CSV and spreadsheet output on, the data rows summed   *)
(* over all sheets of the workbook, the CSV data rows and the lines of the *)
(* line-delimited file are all as many as the records, also when there are *)
(* more records than the chunk size or the per-sheet cap.  (Stated for a   *)
(* chunk size below the cap, as write_all_outputs calls the writer.)       *)
(***************************************************************************)
C8_RowCounts ==
    (xpc = "done" /\ ~no_csv /\ ~no_xlsx /\ chunk_size < max_rows_per_sheet) =>
        /\ Len(jsonl) = Cardinality(Records)
        /\ Len(csv_rows) = Cardinality(Records)
        /\ SumRows(sheets, DOMAIN sheets) = Cardinality(Records)

ResolvedStatus(m) ==
    IF m.status \notin {Null, ""} THEN m.status
    ELSE IF Len(m.emb) = 1 THEN m.emb[1].status ELSE Null

HasStamp(m) ==
    \/ m.drc \notin {Null, ""}
    \/ Len(m.emb) = 1 /\ m.emb[1].drc \notin {Null, ""}

CompletedObservation(m) ==
    ResolvedStatus(m) \in {"COMPLETED", "completed"} \/ HasStamp(m)

(***************************************************************************)
(* C9: poll_ready returns only after a polled response has status          *)
(* COMPLETED or carries a completion timestamp, top-level or embedded,     *)
(* either signal alone sufficing, and it returns on the first such         *)
(* response; without either signal it keeps polling until the wall-clock   *)
(* timeout has elapsed and then aborts; page fetching never starts before  *)
(* a completed observation.                                                *)
(***************************************************************************)
C9_PollUntilCompleted ==
    /\ (ppc = "returned") => (polls >= 1 /\ CompletedObservation(meta))
    /\ (ppc = "while" /\ polls >= 1) => ~CompletedObservation(meta)
    /\ (ppc = "timed_out") =>
          (now >= max_wait_s /\ (polls >= 1 => ~CompletedObservation(meta)))
    /\ paging => (ppc = "returned" /\ CompletedObservation(meta))

C9_Witness ==
    /\ paging
    /\ polls >= 2
    /\ ResolvedStatus(meta) = "PROCESSING"
    /\ meta.drc = Null

(***************************************************************************)
(* C10: whatever filter object the caller supplies, the body of the        *)
(* report-creation request never contains a status field.                  *)
(***************************************************************************)
C10_NoStatusFilter ==
    (spc # "enter") => ("status" \notin DOMAIN body)

\* the position in all_items of the k-th record
RecordAt(k) ==
    CHOOSE i \in Records : Cardinality({j \in Records : j <= i}) = k

(***************************************************************************)
(* C11: the line-delimited file holds exactly the records of the           *)
(* accumulated stream that are no page-boundary markers, one line per      *)
(* record in arrival order; the JSON array and, when it is written, the    *)
(* CSV hold exactly the records of the line-delimited file, one entry per  *)
(* record in the same order.                                               *)
(***************************************************************************)
C11_DerivedViews ==
    (xpc \notin {"idle", "enter"}) =>
        /\ Len(jsonl) = Cardinality(Records)
        /\ \A k \in 1 .. Len(jsonl) : jsonl[k] = all_items[RecordAt(k)]
        /\ json_arr = jsonl
        /\ (xpc # "csv" /\ ~no_csv) => csv_rows = jsonl

C11_Witness ==
    /\ xpc = "done"
    /\ ~no_csv
    /\ Len(all_items) = 5
    /\ is_marker(all_items[1])
    /\ is_marker(all_items[4])
    /\ csv_rows = <<all_items[2], all_items[3], all_items[5]>>

\* the leaves of a mapping, each with its dot-joined key path: the scalars,
\* the lists and the empty nested mappings
RECURSIVE Leaves(_, _)
Leaves(d, prefix) ==
    UNION {LET key == join(prefix, d[i][1])
               v == d[i][2]
           IN  IF v[1] = "d" /\ v[2] # <<>> THEN Leaves(v[2], key) ELSE {<<key, v>>} :
           i \in 1 .. Len(d)}

(***************************************************************************)
(* C12: with the union header of a file that holds the record, the row     *)
(* flatten_for_row makes of the record has a column under the dot-joined   *)
(* key path of every leaf of the record; it holds the original value of a  *)
(* scalar leaf and the JSON text of a list leaf, so that every field of    *)
(* the record, an empty nested mapping and a key with a dot in it          *)
(* included, can be read back from the row.                                *)
(***************************************************************************)
C12_FlattenRoundTrip ==
    (fpc = "done") =>
        \A lf \in Leaves(rec, <<>>) :
            /\ lf[1] \in DOMAIN flat_row
            /\ (lf[2][1] = "s") => flat_row[lf[1]] = lf[2]
            /\ (lf[2][1] = "l") => flat_row[lf[1]] = json_dumps(Tail(lf[2]))

\* a non-success that is neither transient, nor rate-limited, nor a 401
OtherFailure(p) ==
    p.rc # 0 /\ ~transient(p.stderr) /\ ~rate_limited(p.stderr) /\ ~unauthorized(p.stderr)

(***************************************************************************)
(* C13, as claimed: an attempt that fails with an other non-success is     *)
(* retried, and the call aborts only on the 7th attempt.                   *)
(***************************************************************************)
C13_OtherExhaustsBudget ==
    (hpc # "decide" /\ OtherFailure(proc)) =>
        \/ hpc = "run" /\ attempt = made + 1
        \/ hpc = "died" /\ made = max_attempts

(***************************************************************************)
(* C13, amended: an attempt that fails with an other non-success is not    *)
(* retried; the call aborts on that same attempt, whichever of the         *)
(* attempts 1..7 it is, with the return code of http as exit code.         *)
(***************************************************************************)
C13_OtherFailsAtOnce ==
    (hpc # "decide" /\ OtherFailure(proc)) =>
        /\ hpc = "died"
        /\ hexit = proc.rc
        /\ made = attempt
        /\ made \in 1 .. max_attempts

C13_Witness ==
    /\ hpc = "died"
    /\ OtherFailure(proc)
    /\ made = 3
    /\ nTransient = 2

\* the caller's date range or filter document is invalid
InvalidInput ==
    \/ filters_doc \in {"unreadable", "not_json", "not_object"}
    \/ DateLT(date_to, date_from)

\* the calls of call_httpie made so far
TransportCalls ==
    {i \in 1 .. Len(events) : events[i][1] \in {"submit", "poll", "page"}}

(***************************************************************************)
(* C14: when the end date precedes the start date, or the filter document  *)
(* cannot be read or is no JSON object, the run makes no transport call    *)
(* (no submission, no status request, no page request), never gets past    *)
(* the call of windows_180, and its exit status is not zero.               *)
(***************************************************************************)
C14_InvalidInputFatalEarly ==
    (mpc # "idle" /\ InvalidInput) =>
        /\ TransportCalls = {}
        /\ events = <<>>
        /\ mpc \in {"check_env", "filters", "windows", "exited"}
        /\ (mpc = "exited") => mexit > 0

C14_Witness ==
    /\ mpc = "exited"
    /\ env_ok
    /\ filters_doc = "object"
    /\ DateLT(date_to, date_from)
    /\ mexit = 2
    /\ events = <<>>

\* the number of days of the inclusive range [from_d, to_d]
SpanDays == toordinal(to_d) - toordinal(from_d) + 1

Date(y, m, d) == [y |-> y, m |-> m, d |-> d]

\* ceil(D / 180) for the D days of the range
CeilWindows == (SpanDays + 179) \div 180

(***************************************************************************)
(* C15: for start <= end windows_180 terminates, and the list it returns   *)
(* has exactly ceil(D / 180) windows, D the number of days of the          *)
(* inclusive range: the loop never makes more than ceil(D / 180)           *)
(* iterations, it goes on while it has made fewer and ends once it has     *)
(* made that many.  2023-01-01..2023-12-31 gives [01-01, 06-29],           *)
(* [06-30, 12-26], [12-27, 12-31].                                         *)
(***************************************************************************)
C15_TerminatesWithCeilWindows ==
    /\ (wpc = "loop") =>
          /\ Len(out) <= CeilWindows
          /\ (Len(out) < CeilWindows) => DateLE(cur, to_d)
          /\ (Len(out) = CeilWindows) => DateLT(to_d, cur)
    /\ (wpc = "done") =>
          /\ Len(out) = CeilWindows
          /\ (from_d = Date(2023, 1, 1) /\ to_d = Date(2023, 12, 31)) =>
                out = <<(<<Date(2023, 1, 1), Date(2023, 6, 29)>>),
                        (<<Date(2023, 6, 30), Date(2023, 12, 26)>>),
                        (<<Date(2023, 12, 27), Date(2023, 12, 31)>>)>>

C15_Witness ==
    /\ wpc = "done"
    /\ from_d = Date(2023, 1, 1)
    /\ to_d = Date(2023, 12, 31)
    /\ Len(out) = 3

\* a page has just been consumed and the loop is about to test next_url
AfterPage == tpc = "while" /\ pages_seen_meta # <<>>

\* the normalised metadata of the page just consumed
LastMeta == pages_seen_meta[Len(pages_seen_meta)].meta

(***************************************************************************)
(* C16: after each page the advance is decided by the first signal that is *)
(* present, in the order link, metadata, length.  With a next link the     *)
(* link is followed.  Without one, metadata that exposes both a page       *)
(* number and a total decides alone: page number + 1 is requested when     *)
(* number + 1 < total, and the traversal ends otherwise, whatever the item *)
(* count.  Only with neither signal does the length decide: the next       *)
(* index is requested after a page of exactly size items, and the          *)
(* traversal ends after a shorter one.                                     *)
(***************************************************************************)
C16_AdvancePriority ==
    AfterPage =>
        IF page.link # <<>>
        THEN next_url # <<>> /\ next_url[1].page = page.link[1].page
        ELSE IF LastMeta.number # <<>> /\ LastMeta.total_pages # <<>>
        THEN IF LastMeta.number[1] + 1 < LastMeta.total_pages[1]
             THEN next_url = <<GET_URL(LastMeta.number[1] + 1, size)>>
             ELSE next_url = <<>>
        ELSE IF page.n_items = size
        THEN next_url = <<GET_URL(page_no, size)>>
        ELSE next_url = <<>>

(***************************************************************************)
(* C17: no sheet of the workbook ever holds more than max_rows_per_sheet   *)
(* data rows, for every record count, chunk size and cap, during the       *)
(* chunked flushes and after the final flush.                              *)
(***************************************************************************)
C17_SheetCap ==
    \A i \in DOMAIN sheets : Len(sheets[i]) <= max_rows_per_sheet

\* the pages of the window whose metadata has a value for field f
PagesWith(f) ==
    {i \in 1 .. Len(pages_seen_meta) : pages_seen_meta[i].meta[f] # <<>>}

\* the first value of field f in page order, <<>> when no page has one
FirstNonNull(f) ==
    IF PagesWith(f) = {} THEN <<>>
    ELSE LET i == CHOOSE i \in PagesWith(f) : \A j \in PagesWith(f) : i <= j
         IN  pages_seen_meta[i].meta[f]

(***************************************************************************)
(* C18: the audit's total_pages_reported and total_elements_reported are   *)
(* the first non-null values of those fields in page order; a later page   *)
(* that reports a different value does not replace them.                   *)
(***************************************************************************)
C18_FirstNonNullWins ==
    (audit # <<>>) =>
        /\ audit[1].total_pages_reported = FirstNonNull("total_pages")
        /\ audit[1].total_elements_reported = FirstNonNull("total_elements")

(***************************************************************************)
(* C19: a call of call_httpie ends in one of two ways: it returns the      *)
(* parsed payload of a successful attempt (the empty mapping for an empty  *)
(* body), or the process aborts with a non-zero exit status.  It never     *)
(* comes back to its caller without a payload.                             *)
(***************************************************************************)
C19_PayloadOrAbort ==
    (hpc \notin {"idle", "run", "decide"}) =>
        \/ /\ hpc = "returned"
           /\ proc.rc = 0
           /\ hres = (IF proc.body = "empty" THEN "{}" ELSE "payload")
           /\ hexit = -1
        \/ /\ hpc = "died"
           /\ hres = Null
           /\ hexit > 0

\* the page indexes requested so far
RequestedPages == {requested[i] : i \in 1 .. Len(requested)}

(***************************************************************************)
(* C20: the traversal is finite whatever next links, metadata and page     *)
(* lengths the server returns: no page ever sends it back to a page index  *)
(* it has requested before.  (The pages of a completed report do not       *)
(* change, so a traversal that is sent back to a page it has requested     *)
(* gets the same answers again and requests the same pages forever.)       *)
(***************************************************************************)
C20_NeverGoesBack ==
    (AfterPage /\ next_url # <<>>) => next_url[1].page \notin RequestedPages

(***************************************************************************)
(* C21: whatever filter object the caller supplies, the body of the        *)
(* report-creation request carries the configured report type, the         *)
(* window's start date at 00:00:00 as last_updated_start_date and the      *)
(* window's end date at 23:59:59 as last_updated_end_date.                 *)
(***************************************************************************)
C21_WindowBoundsKept ==
    (spc \notin {"idle", "enter"}) =>
        /\ body["report_type"] = <<report_type>>
        /\ body["last_updated_start_date"] = <<start_d, "00:00:00">>
        /\ body["last_updated_end_date"] = <<end_d, "23:59:59">>


(***************************************************************************)
(* The place of an event in the order of a run: its window first, then     *)
(* submission, status requests, completion, page requests, audit document. *)
(***************************************************************************)
PhaseRank(kind) ==
    CASE kind = "submit" -> 1
      [] kind = "poll" -> 2
      [] kind = "ready" -> 3
      [] kind = "page" -> 4
      [] kind = "audit" -> 5

EventKey(e) == IF Len(e) = 1 THEN 6 * (Len(windows) + 1) ELSE 6 * e[2] + PhaseRank(e[1])

EventAt(kind, w) == {i \in 1 .. Len(events) : events[i] = <<kind, w>>}

\* C22: the events of a run are in the order of the windows and, in a window,
\* in the order submission, status requests, completion, page requests, audit
\* document; when the submission of a window after the first is sent, the
\* window before it has had its submission, a status request, its completion,
\* a page request and, with --verify, its audit document, and it has no page
\* request after that; and at most one call of call_httpie is outstanding.
C22_StrictlySequential ==
    /\ outstanding \in {0, 1}
    /\ \A i, j \in 1 .. Len(events) : i < j => EventKey(events[i]) <= EventKey(events[j])
    /\ \A w \in 2 .. Len(windows) : \A i \in EventAt("submit", w) :
           /\ \E a \in EventAt("submit", w - 1) : \E b \in EventAt("poll", w - 1) :
              \E c \in EventAt("ready", w - 1) : \E d \in EventAt("page", w - 1) :
                  /\ a < b /\ b < c /\ c < d /\ d < i
                  /\ args_verify =>
                         \E e \in EventAt("audit", w - 1) : d < e /\ e < i
           /\ \A d \in EventAt("page", w - 1) : d < i
           /\ Cardinality(EventAt("submit", w)) = 1
           /\ Cardinality(EventAt("ready", w - 1)) = 1

C22_Witness ==
    /\ mpc = "page_wait"
    /\ widx = 2
    /\ args_verify
    /\ outstanding = 1
    /\ CountEvents("page", 1) = 2
    /\ CountEvents("poll", 1) = 2


\* the attempt whose outcome proc holds has ended with return code 0
SucceededAttempt == hpc # "decide" /\ made > 0 /\ proc # NoProc /\ proc.rc = 0

\* C23: an attempt of call_httpie that succeeds with a body that cannot be
\* parsed is followed by a sleep of at most 30 seconds and the next attempt
\* when it is one of the attempts 1..6, and by a fatal exit when it is the
\* 7th; an attempt that succeeds with a parseable body, the first or a later
\* one, returns the payload; one that succeeds with an empty body returns the
\* empty mapping on that attempt.
C23_ParseErrorIsTransient ==
    SucceededAttempt =>
        CASE proc.body = "bad" ->
                 IF made < 7
                 THEN hpc = "run" /\ attempt = made + 1 /\ lastsleep = "backoff_cap30"
                          /\ hexit = -1 /\ hres = Null
                 ELSE hpc = "died" /\ hexit = 2 /\ made = 7 /\ hres = Null
          [] proc.body = "json" ->
                 hpc = "returned" /\ hres = "payload" /\ hexit = -1 /\ attempt = made
          [] proc.body = "empty" ->
                 hpc = "returned" /\ hres = "{}" /\ hexit = -1 /\ attempt = made

C23_Witness ==
    /\ hpc = "died"
    /\ proc.rc = 0
    /\ proc.body = "bad"
    /\ made = 7
    /\ lastsleep = "backoff_cap30"


\* the positions of main inside the loop over the windows from which the
\* process can exit: in post_report, in poll_ready, in stream_report_items
WindowPhases == {"submit_wait", "poll", "poll_wait", "page_wait"}

OutputsWritten(evs) == \E i \in 1 .. Len(evs) : evs[i] = <<"outputs">>

AuditsWritten(evs) == {evs[i][2] : i \in {j \in 1 .. Len(evs) : evs[j][1] = "audit"}}

\* C24: when the process exits inside the loop over the windows (in the
\* submission, in the polling or its timeout, in a page request), the exit
\* status is not 0, write_all_outputs has not run, for no window, and the
\* audit documents written are those of windows before the one it exits in.
C24_AllOrNothing ==
    [][(mpc \in WindowPhases /\ mpc' = "exited") =>
           /\ mexit' > 0
           /\ ~OutputsWritten(events')
           /\ AuditsWritten(events') \subseteq 1 .. (widx' - 1)
           /\ ~args_verify => AuditsWritten(events') = {}]_vars

C24_Witness ==
    /\ mpc = "exited"
    /\ mexit = 2
    /\ widx = 2
    /\ args_verify
    /\ CountEvents("page", 1) = 2
    /\ AuditsWritten(events) = {1}
    /\ events[Len(events)] = <<"page", 2>>

====
